---- MODULE Spec2Model ----
(***************************************************************************)
(* Model of the tutorial content-assembly pipeline of                      *)
(* src/components/Tutorial.js: validation of the top-level children, the   *)
(* explicit / inferred project-state initialisers, and the three nested    *)
(* reducers gatherSections / gatherSteps / swapCodeBlocks.  Project states *)
(* are JavaScript Maps, i.e. mutable objects held by reference; they are   *)
(* modelled as cells of a heap so that aliasing is observable.             *)
(***************************************************************************)
EXTENDS Integers, Sequences, FiniteSets, TLC

\* ---------------------------------------------------------------- bounds
MaxNodes == 5   \* elements and leaf nodes in the whole tutorial

FileNames == {"f", "g"}
Codes     == {"a", "b"}

\* ------------------------------------------------------------ leaf nodes
\* A fenced code sample: a `pre` element with the props parseCodeBlockProps
\* extracts.  A shell command is a code block whose language is "shell".
\* Every file in every version as "js", and one block that gives a file
\* another language.
CodeBlocks ==
  {[mdxType |-> "pre", fileName |-> f, code |-> c, language |-> "js"] :
      f \in FileNames, c \in Codes}
  \cup {[mdxType |-> "pre", fileName |-> "f", code |-> "b", language |-> "ts"]}
ShellBlock == [mdxType |-> "pre", fileName |-> "", code |-> "a", language |-> "shell"]
TextBlock  == [mdxType |-> "p", fileName |-> "", code |-> "", language |-> ""]
Blocks     == CodeBlocks \cup {ShellBlock, TextBlock}

isMdxType(child, type) == child.mdxType = type
isCodeBlock(child)     == child.mdxType = "pre"
isShellCommand(child)  == isCodeBlock(child) /\ child.language = "shell"
parseCodeBlockProps(child) ==
  [fileName |-> child.fileName, code |-> child.code, language |-> child.language]

\* ------------------------------------------------------- content trees
\* A tutorial is drawn as a shape (element types and leaf counts) filled with
\* leaf nodes in document order.
RECURSIVE SumSeq(_)
SumSeq(s) == IF s = <<>> THEN 0 ELSE Head(s) + SumSeq(Tail(s))

RECURSIVE StepCounts(_)
\* the leaf counts of the steps of a section whose steps take n nodes
StepCounts(n) ==
  IF n = 0 THEN {<<>>}
  ELSE UNION {{<<k - 1>> \o rest : rest \in StepCounts(n - k)} : k \in 1..n}

\* the shapes of a top-level child of n nodes: an element with n - 1 leaves,
\* or a section whose steps take n - 1 nodes
ChildShapes(n) ==
  {[mdxType |-> t, counts |-> <<n - 1>>] :
      t \in {"Project", "TutorialStep", "Other"}}
  \cup {[mdxType |-> "TutorialSection", counts |-> cs] : cs \in StepCounts(n - 1)}

RECURSIVE ShapesOfSize(_)
ShapesOfSize(n) ==
  IF n = 0 THEN {<<>>}
  ELSE UNION {{<<c>> \o rest : c \in ChildShapes(k), rest \in ShapesOfSize(n - k)} :
                k \in 1..n}

Shapes == UNION {ShapesOfSize(n) : n \in 0..MaxNodes}

\* the number of leaves of a shape
ShapeSize(shape) == SumSeq([i \in 1..Len(shape) |-> SumSeq(shape[i].counts)])

\* the n leaves of `fill` that follow the first `off` ones
Slice(fill, off, n) == [k \in 1..n |-> fill[off + k]]

BuildChild(cs, fill, off) ==
  IF cs.mdxType = "TutorialSection"
    THEN [mdxType |-> "TutorialSection",
          children |-> [j \in 1..Len(cs.counts) |->
             [mdxType |-> "TutorialStep",
              children |-> Slice(fill, off + SumSeq(SubSeq(cs.counts, 1, j - 1)),
                                 cs.counts[j])]]]
    ELSE [mdxType |-> cs.mdxType, children |-> Slice(fill, off, cs.counts[1])]

BuildTutorial(shape, fill) ==
  [i \in 1..Len(shape) |->
     BuildChild(shape[i], fill, ShapeSize(SubSeq(shape, 1, i - 1)))]

\* ------------------------------------------------- Map (ProjectState)
\* A JavaScript Map: entries in insertion order, keys unique.
EmptyMap == <<>>
MapHas(map, fileName) == \E i \in 1..Len(map) : map[i].fileName = fileName
MapGet(map, fileName) ==
  LET i == CHOOSE i \in 1..Len(map) : map[i].fileName = fileName
  IN  [code |-> map[i].code, language |-> map[i].language]
MapSet(map, fileName, value) ==
  LET entry == [fileName |-> fileName, code |-> value.code,
                language |-> value.language]
  IN  IF MapHas(map, fileName)
        THEN [i \in 1..Len(map) |->
                IF map[i].fileName = fileName THEN entry ELSE map[i]]
        ELSE Append(map, entry)
MapKeys(map) == {map[i].fileName : i \in 1..Len(map)}

\* an alias instead of a copy
cloneAliased(h, ref) == [heap |-> h, ref |-> ref]

\* clone(map): a new Map object with the same entries.  `h` is the heap of
\* Map objects, `ref` the object cloned; yields the heap and the new reference.
clone(h, ref) == [heap |-> Append(h, h[ref]), ref |-> Len(h) + 1]

\* diffLines(oldStr, newStr) for single-line strings: the change objects,
\* removals before additions, nothing for an empty side.
diffLines(oldStr, newStr) ==
  IF oldStr = newStr
    THEN (IF oldStr = "" THEN <<>>
          ELSE <<[value |-> oldStr, added |-> FALSE, removed |-> FALSE]>>)
    ELSE (IF oldStr = "" THEN <<>>
          ELSE <<[value |-> oldStr, added |-> FALSE, removed |-> TRUE]>>)
      \o (IF newStr = "" THEN <<>>
          ELSE <<[value |-> newStr, added |-> TRUE, removed |-> FALSE]>>)

\* ------------------------------------------------------ pure functions
RECURSIVE FlatMap(_, _)
FlatMap(Op(_), s) == IF s = <<>> THEN <<>> ELSE Op(Head(s)) \o FlatMap(Op, Tail(s))

Filter(Test(_), s) ==
  LET F[i \in 0..Len(s)] ==
        IF i = 0 THEN <<>>
        ELSE IF Test(s[i]) THEN Append(F[i - 1], s[i]) ELSE F[i - 1]
  IN  F[Len(s)]

isQualifying(child) == isCodeBlock(child) /\ ~isShellCommand(child)

parseProjectStateFromConfig(configElement) ==
  LET blocks == Filter(isQualifying, configElement.children)
      R[i \in 0..Len(blocks)] ==
        IF i = 0 THEN EmptyMap
        ELSE LET props == parseCodeBlockProps(blocks[i])
             IN  IF MapHas(R[i - 1], props.fileName) THEN R[i - 1]
                 ELSE MapSet(R[i - 1], props.fileName,
                             [code |-> props.code, language |-> props.language])
  IN  R[Len(blocks)]

findCodeBlocksInTutorialStep(stepElement) ==
  Filter(isQualifying, stepElement.children)

findCodeBlocksInTutorialSection(sectionElement) ==
  FlatMap(findCodeBlocksInTutorialStep, sectionElement.children)

\* an inferred initialiser that looks at direct steps only
findCodeBlocksInChildStepsOnly(child) ==
  CASE child.mdxType = "TutorialStep" -> findCodeBlocksInTutorialStep(child)
    [] OTHER                          -> <<>>

findCodeBlocksInChild(child) ==
  CASE child.mdxType = "TutorialStep"    -> findCodeBlocksInTutorialStep(child)
    [] child.mdxType = "TutorialSection" -> findCodeBlocksInTutorialSection(child)
    [] OTHER                             -> <<>>

parseProjectStateFromChildren(cs) ==
  LET blocks == FlatMap(findCodeBlocksInChild, cs)
      R[i \in 0..Len(blocks)] ==
        IF i = 0 THEN EmptyMap
        ELSE LET props == parseCodeBlockProps(blocks[i])
             IN  IF MapHas(R[i - 1], props.fileName) THEN R[i - 1]
                 ELSE MapSet(R[i - 1], props.fileName,
                             [code |-> "", language |-> props.language])
  IN  R[Len(blocks)]

\* ---------------------------------------------------------- validation
ErrProject  == "Project not first child"
ErrSection  == "TutorialStep outside of a TutorialSection"
ErrStep     == "child not wrapped in a TutorialStep"
ErrFileName == "block does not have a file name that matches the project"
NoError     == "none"

some(cs, type)  == \E i \in 1..Len(cs) : isMdxType(cs[i], type)
findIndex(cs, type) ==
  IF some(cs, type)
    THEN (CHOOSE i \in 1..Len(cs) :
            isMdxType(cs[i], type) /\ \A j \in 1..(i - 1) : ~isMdxType(cs[j], type)) - 1
    ELSE -1
slice1(cs) == IF cs = <<>> THEN <<>> ELSE Tail(cs)

validateSections(cs) ==
  IF \A i \in 1..Len(cs) : ~isMdxType(cs[i], "TutorialStep") THEN NoError ELSE ErrSection

validateTutorialSteps(cs) ==
  IF \A i \in 1..Len(cs) : isMdxType(cs[i], "TutorialStep") THEN NoError ELSE ErrStep

validateChildren(cs) ==
  IF findIndex(cs, "Project") > 0 THEN ErrProject
  ELSE IF some(cs, "TutorialSection") THEN validateSections(slice1(cs))
  ELSE validateTutorialSteps(slice1(cs))

\* useOnMount(callback): the callback's outcome as seen by the render; the
\* hook runs the callback where it is called (validation precedes assembly).
useOnMount(outcome) == outcome

\* ------------------------------------------------------------- state
VARIABLES
  tutorial,             \* Children.toArray(children) as passed to Tutorial
  pc,                   \* position of the render
  error,                \* message of the Error thrown, NoError if none
  children,             \* Tutorial's `children` after the Project is sliced off
  isSectioned,
  heap,                 \* the Map objects created so far, by reference
  initialProjectState,  \* reference, 0 before initialisation
  elements, sectionIdx, sectionState,          \* gatherSections accumulator
  stepList, steps, stepIdx, stepState,         \* gatherSteps accumulator
  blockList, newChildren, blockIdx, blockState, \* swapCodeBlocks accumulator
  output                \* what Tutorial returns

sectionVars == <<elements, sectionIdx, sectionState>>
stepVars    == <<stepList, steps, stepIdx, stepState>>
blockVars   == <<blockList, newChildren, blockIdx, blockState>>
setupVars   == <<tutorial, children, isSectioned, initialProjectState>>
vars == <<tutorial, pc, error, children, isSectioned, heap, initialProjectState,
          elements, sectionIdx, sectionState, stepList, steps, stepIdx, stepState,
          blockList, newChildren, blockIdx, blockState, output>>

Init ==
  /\ \E shape \in Shapes : \E fill \in [1..ShapeSize(shape) -> Blocks] :
        tutorial = BuildTutorial(shape, fill)
  /\ pc = "validate"
  /\ error = NoError
  /\ children = tutorial
  /\ isSectioned = FALSE
  /\ heap = <<>>
  /\ initialProjectState = 0
  /\ elements = <<>> /\ sectionIdx = 1 /\ sectionState = 0
  /\ stepList = <<>> /\ steps = <<>> /\ stepIdx = 1 /\ stepState = 0
  /\ blockList = <<>> /\ newChildren = <<>> /\ blockIdx = 1 /\ blockState = 0
  /\ output = <<>>

\* Tutorial, lines 11-15: the mount hook runs validateChildren.
Validate ==
  /\ pc = "validate"
  /\ LET outcome == useOnMount(validateChildren(children))
     IN  IF outcome # NoError
           THEN pc' = "error" /\ error' = outcome
           ELSE pc' = "init" /\ error' = error
  /\ UNCHANGED <<setupVars, heap, sectionVars, stepVars, blockVars, output>>

\* Tutorial, lines 17-34: project element, initial project state, and the call
\* of gatherSections or gatherSteps.
InitProjectState ==
  /\ pc = "init"
  /\ LET sectioned == some(children, "TutorialSection")
         hasProject == children # <<>> /\ isMdxType(children[1], "Project")
         rest == IF hasProject THEN Tail(children) ELSE children
         state == IF hasProject THEN parseProjectStateFromConfig(children[1])
                  ELSE parseProjectStateFromChildren(rest)
     IN  /\ isSectioned' = sectioned
         /\ children' = rest
         /\ heap' = Append(heap, state)
         /\ initialProjectState' = Len(heap) + 1
         /\ IF sectioned
              THEN /\ pc' = "gatherSections"
                   /\ elements' = <<>> /\ sectionIdx' = 1
                   /\ sectionState' = Len(heap) + 1
                   /\ UNCHANGED stepVars
              ELSE /\ pc' = "gatherSteps"
                   /\ stepList' = rest /\ steps' = <<>> /\ stepIdx' = 1
                   /\ stepState' = Len(heap) + 1
                   /\ UNCHANGED sectionVars
  /\ UNCHANGED <<tutorial, error, blockVars, output>>

\* a reducer that starts every section from the initial project state
GatherSectionsSectionFromInitial ==
  /\ pc = "gatherSections"
  /\ sectionIdx <= Len(children)
  /\ isMdxType(children[sectionIdx], "TutorialSection")
  /\ stepList' = children[sectionIdx].children
  /\ steps' = <<>> /\ stepIdx' = 1
  /\ stepState' = initialProjectState
  /\ pc' = "gatherSteps"
  /\ UNCHANGED <<setupVars, error, heap, sectionVars, blockVars, output>>

\* gatherSections reducer, lines 48-52: a section's children go to gatherSteps.
GatherSectionsSection ==
  /\ pc = "gatherSections"
  /\ sectionIdx <= Len(children)
  /\ isMdxType(children[sectionIdx], "TutorialSection")
  /\ stepList' = children[sectionIdx].children
  /\ steps' = <<>> /\ stepIdx' = 1
  /\ stepState' = sectionState
  /\ pc' = "gatherSteps"
  /\ UNCHANGED <<setupVars, error, heap, sectionVars, blockVars, output>>

\* gatherSections reducer, line 60: any other child is kept as it is.
GatherSectionsOther ==
  /\ pc = "gatherSections"
  /\ sectionIdx <= Len(children)
  /\ ~isMdxType(children[sectionIdx], "TutorialSection")
  /\ elements' = Append(elements, children[sectionIdx])
  /\ sectionIdx' = sectionIdx + 1
  /\ UNCHANGED <<setupVars, pc, error, heap, sectionState, stepVars, blockVars, output>>

\* gatherSections, line 65, and Tutorial, line 31.
GatherSectionsReturn ==
  /\ pc = "gatherSections"
  /\ sectionIdx > Len(children)
  /\ output' = elements
  /\ pc' = "done"
  /\ UNCHANGED <<setupVars, error, heap, sectionVars, stepVars, blockVars>>

\* gatherSteps reducer, lines 71-74: the step goes to swapCodeBlocks.
GatherStepsStep ==
  /\ pc = "gatherSteps"
  /\ stepIdx <= Len(stepList)
  /\ blockList' = stepList[stepIdx].children
  /\ newChildren' = <<>> /\ blockIdx' = 1
  /\ blockState' = stepState
  /\ pc' = "swapCodeBlocks"
  /\ UNCHANGED <<setupVars, error, heap, sectionVars, stepVars, output>>

\* gatherSteps returns {steps, currentProjectState}: to the gatherSections
\* reducer (lines 54-57) or to Tutorial (lines 34-36).
GatherStepsReturn ==
  /\ pc = "gatherSteps"
  /\ stepIdx > Len(stepList)
  /\ IF isSectioned
       THEN /\ sectionState' = stepState
            /\ elements' = Append(elements,
                 [mdxType |-> children[sectionIdx].mdxType, children |-> steps])
            /\ sectionIdx' = sectionIdx + 1
            /\ pc' = "gatherSections"
            /\ UNCHANGED output
       ELSE /\ output' = steps
            /\ pc' = "done"
            /\ UNCHANGED sectionVars
  /\ UNCHANGED <<setupVars, error, heap, stepVars, blockVars>>

\* swapCodeBlocks reducer, lines 97-99.
SwapCodeBlocksPassThrough ==
  /\ pc = "swapCodeBlocks"
  /\ blockIdx <= Len(blockList)
  /\ ~isCodeBlock(blockList[blockIdx]) \/ isShellCommand(blockList[blockIdx])
  /\ newChildren' = Append(newChildren, blockList[blockIdx])
  /\ blockIdx' = blockIdx + 1
  /\ UNCHANGED <<setupVars, pc, error, heap, sectionVars, stepVars,
                 blockList, blockState, output>>

\* a reducer that writes the entry before it looks the file name up
SwapCodeBlocksThrowAfterSet ==
  /\ pc = "swapCodeBlocks"
  /\ blockIdx <= Len(blockList)
  /\ ~(~isCodeBlock(blockList[blockIdx]) \/ isShellCommand(blockList[blockIdx]))
  /\ LET props == parseCodeBlockProps(blockList[blockIdx])
     IN  /\ ~MapHas(heap[blockState], props.fileName)
         /\ heap' = [heap EXCEPT ![blockState] =
                MapSet(@, props.fileName,
                       [code |-> props.code, language |-> props.language])]
  /\ pc' = "error"
  /\ error' = ErrFileName
  /\ UNCHANGED <<setupVars, sectionVars, stepVars, blockVars, output>>

\* swapCodeBlocks reducer, lines 101-110.
SwapCodeBlocksThrow ==
  /\ pc = "swapCodeBlocks"
  /\ blockIdx <= Len(blockList)
  /\ ~(~isCodeBlock(blockList[blockIdx]) \/ isShellCommand(blockList[blockIdx]))
  /\ LET props == parseCodeBlockProps(blockList[blockIdx])
     IN  ~MapHas(heap[blockState], props.fileName)
  /\ pc' = "error"
  /\ error' = ErrFileName
  /\ UNCHANGED <<setupVars, heap, sectionVars, stepVars, blockVars, output>>

\* a reducer that reads the previous code after the entry is replaced
SwapCodeBlocksEditorDiffAfterSet ==
  /\ pc = "swapCodeBlocks"
  /\ blockIdx <= Len(blockList)
  /\ ~(~isCodeBlock(blockList[blockIdx]) \/ isShellCommand(blockList[blockIdx]))
  /\ LET props == parseCodeBlockProps(blockList[blockIdx])
     IN  /\ MapHas(heap[blockState], props.fileName)
         /\ LET cloned == clone(heap, blockState)
                projectState == cloned.ref
                newHeap == [cloned.heap EXCEPT ![projectState] =
                      MapSet(@, props.fileName,
                             [code |-> props.code, language |-> props.language])]
                prevCode == MapGet(newHeap[projectState], props.fileName).code
            IN  /\ heap' = newHeap
                /\ newChildren' = Append(newChildren,
                      [mdxType |-> "TutorialEditor",
                       key |-> blockIdx - 1,
                       focusedFileName |-> props.fileName,
                       diff |-> diffLines(prevCode, props.code),
                       project |-> projectState])
                /\ blockState' = projectState
  /\ blockIdx' = blockIdx + 1
  /\ UNCHANGED <<setupVars, pc, error, sectionVars, stepVars, blockList, output>>

\* swapCodeBlocks reducer, lines 101-129.
SwapCodeBlocksEditor ==
  /\ pc = "swapCodeBlocks"
  /\ blockIdx <= Len(blockList)
  /\ ~(~isCodeBlock(blockList[blockIdx]) \/ isShellCommand(blockList[blockIdx]))
  /\ LET props == parseCodeBlockProps(blockList[blockIdx])
     IN  /\ MapHas(heap[blockState], props.fileName)
         /\ LET prevCode == MapGet(heap[blockState], props.fileName).code
                cloned == clone(heap, blockState)
                projectState == cloned.ref
            IN  /\ heap' = [cloned.heap EXCEPT ![projectState] =
                      MapSet(@, props.fileName,
                             [code |-> props.code, language |-> props.language])]
                /\ newChildren' = Append(newChildren,
                      [mdxType |-> "TutorialEditor",
                       key |-> blockIdx - 1,
                       focusedFileName |-> props.fileName,
                       diff |-> diffLines(prevCode, props.code),
                       project |-> projectState])
                /\ blockState' = projectState
  /\ blockIdx' = blockIdx + 1
  /\ UNCHANGED <<setupVars, pc, error, sectionVars, stepVars, blockList, output>>

\* a reducer that numbers the steps with the zero-based index
SwapCodeBlocksReturnZeroBased ==
  /\ pc = "swapCodeBlocks"
  /\ blockIdx > Len(blockList)
  /\ stepState' = blockState
  /\ steps' = Append(steps,
        [mdxType |-> stepList[stepIdx].mdxType,
         children |-> newChildren,
         stepNumber |-> stepIdx - 1,
         totalSteps |-> Len(newChildren)])
  /\ stepIdx' = stepIdx + 1
  /\ pc' = "gatherSteps"
  /\ UNCHANGED <<setupVars, error, heap, sectionVars, stepList, blockVars, output>>

\* swapCodeBlocks returns [children, projectState] to the gatherSteps
\* reducer, lines 76-86.
SwapCodeBlocksReturn ==
  /\ pc = "swapCodeBlocks"
  /\ blockIdx > Len(blockList)
  /\ stepState' = blockState
  /\ steps' = Append(steps,
        [mdxType |-> stepList[stepIdx].mdxType,
         children |-> newChildren,
         stepNumber |-> stepIdx,
         totalSteps |-> Len(newChildren)])
  /\ stepIdx' = stepIdx + 1
  /\ pc' = "gatherSteps"
  /\ UNCHANGED <<setupVars, error, heap, sectionVars, stepList, blockVars, output>>

Next ==
  \/ Validate
  \/ InitProjectState
  \/ GatherSectionsSection
  \/ GatherSectionsOther
  \/ GatherSectionsReturn
  \/ GatherStepsStep
  \/ GatherStepsReturn
  \/ SwapCodeBlocksPassThrough
  \/ SwapCodeBlocksThrow
  \/ SwapCodeBlocksEditor
  \/ SwapCodeBlocksReturn

Spec == Init /\ [][Next]_vars

\* ======================================================== properties

hasProject(t) == t # <<>> /\ isMdxType(t[1], "Project")

\* the three rules of the validator as the documentation states them
ProjectPlacementOk(t) == \A i \in 2..Len(t) : ~isMdxType(t[i], "Project")
validationRan == pc # "validate"

\* C1: in a sectioned tutorial (whose Project, if any, is the first child) a
\* bare TutorialStep among the top-level children, at any position, makes
\* validation raise the nesting-violation error.
C1_BareStepAlwaysRejected ==
  (/\ validationRan
   /\ ProjectPlacementOk(tutorial)
   /\ some(tutorial, "TutorialSection")
   /\ some(tutorial, "TutorialStep"))
  => (pc = "error" /\ error = ErrSection)

\* C2: in a non-sectioned tutorial (whose Project, if any, is the first child)
\* a top-level child that is neither the Project block nor a TutorialStep, at
\* any position, makes validation raise the must-be-wrapped error.
C2_NonStepAlwaysRejected ==
  (/\ validationRan
   /\ ProjectPlacementOk(tutorial)
   /\ ~some(tutorial, "TutorialSection")
   /\ \E i \in 1..Len(tutorial) :
        ~isMdxType(tutorial[i], "Project") /\ ~isMdxType(tutorial[i], "TutorialStep"))
  => (pc = "error" /\ error = ErrStep)

\* the code block swapCodeBlocks is about to process names no file of the
\* current project state
atUnknownFile ==
  /\ pc = "swapCodeBlocks"
  /\ blockIdx <= Len(blockList)
  /\ isQualifying(blockList[blockIdx])
  /\ ~MapHas(heap[blockState], blockList[blockIdx].fileName)

\* C3: a qualifying code block whose file name is not in the current project
\* state raises the file-name error, and leaves the current state, every
\* snapshot produced so far and everything assembled so far as they were.
C3_UnknownFileThrowsBeforeMutation ==
  [][atUnknownFile =>
       /\ pc' = "error" /\ error' = ErrFileName
       /\ heap' = heap
       /\ blockState' = blockState /\ stepState' = stepState
       /\ sectionState' = sectionState
       /\ newChildren' = newChildren /\ steps' = steps /\ elements' = elements
       /\ output' = output]_vars

C3_Witness == pc = "error" /\ error = ErrFileName /\ Len(heap) >= 2

\* the tutorial obeys the documented rules: Project only first, no bare step
\* next to sections, otherwise only steps
DocumentedValid(t) ==
  LET rest == IF hasProject(t) THEN Tail(t) ELSE t
  IN  /\ ProjectPlacementOk(t)
      /\ IF some(t, "TutorialSection")
           THEN \A i \in 1..Len(rest) : ~isMdxType(rest[i], "TutorialStep")
           ELSE \A i \in 1..Len(rest) : isMdxType(rest[i], "TutorialStep")

stepsOfElement(el) == IF isMdxType(el, "TutorialSection") THEN el.children ELSE <<>>
\* the assembled steps of the tutorial in document order
assembledSteps == IF isSectioned THEN FlatMap(stepsOfElement, output) ELSE output

\* C4 as stated: the k-th step of the tutorial in document order carries
\* stepNumber k, sections or not.
C4_GlobalOrdinals ==
  (pc = "done" /\ DocumentedValid(tutorial))
  => \A k \in 1..Len(assembledSteps) : assembledSteps[k].stepNumber = k

\* the assembled step `out` is the step `in` with its code blocks swapped
assembledFrom(out, in) ==
  /\ out.mdxType = in.mdxType
  /\ Len(out.children) = Len(in.children)
  /\ \A b \in 1..Len(in.children) :
       IF isQualifying(in.children[b])
         THEN /\ out.children[b].mdxType = "TutorialEditor"
              /\ out.children[b].focusedFileName = in.children[b].fileName
              /\ MapGet(heap[out.children[b].project], in.children[b].fileName).code
                   = in.children[b].code
         ELSE out.children[b] = in.children[b]

numberedInOrder(outSteps, inSteps) ==
  /\ Len(outSteps) = Len(inSteps)
  /\ \A k \in 1..Len(inSteps) :
       outSteps[k].stepNumber = k /\ assembledFrom(outSteps[k], inSteps[k])

\* C4 amended: steps keep their order, and ordinals are contiguous from 1
\* within each list given to gatherSteps: the whole tutorial when it has no
\* sections, each section on its own otherwise.
C4_OrdinalsPerStepList ==
  pc = "done" =>
    IF isSectioned
      THEN /\ Len(output) = Len(children)
           /\ \A i \in 1..Len(children) :
                isMdxType(children[i], "TutorialSection") =>
                  /\ isMdxType(output[i], "TutorialSection")
                  /\ numberedInOrder(output[i].children, children[i].children)
      ELSE numberedInOrder(output, children)

C4_Witness ==
  /\ pc = "done" /\ isSectioned /\ Len(output) >= 2
  /\ isMdxType(output[1], "TutorialSection") /\ Len(output[1].children) >= 1
  /\ isMdxType(output[2], "TutorialSection") /\ Len(output[2].children) >= 1
  /\ output[2].children[1].stepNumber = 1
  /\ output[1].children[1].children # output[2].children[1].children

nothingAssembled ==
  /\ heap = <<>> /\ initialProjectState = 0
  /\ elements = <<>> /\ steps = <<>> /\ newChildren = <<>> /\ output = <<>>

\* C5: a tutorial that breaks a rule of the validator (with its Project, if
\* any, in first place: a bare step next to sections, or a child that is not a
\* step without sections) is never assembled: the render stops at the
\* validator's error with no project state, step, editor node or result.
C5_RuleBreakAbortsRender ==
  (validationRan /\ ProjectPlacementOk(tutorial) /\ ~DocumentedValid(tutorial))
  => /\ pc = "error" /\ error \in {ErrSection, ErrStep}
     /\ nothingAssembled

\* What holds of C5: a tutorial for which validateChildren throws is never
\* assembled, given a mount hook that runs its callback where it is called.
ValidatorErrorAbortsRender ==
  validateChildren(tutorial) # NoError =>
    /\ pc \in {"validate", "error"}
    /\ nothingAssembled
    /\ pc = "error" => error = validateChildren(tutorial)

atKnownFile ==
  /\ pc = "swapCodeBlocks"
  /\ blockIdx <= Len(blockList)
  /\ isQualifying(blockList[blockIdx])
  /\ MapHas(heap[blockState], blockList[blockIdx].fileName)

\* C6: a qualifying code block (f, c, l) whose file is in the current state
\* with code p appends an editor node focused on f, with the line diff of p
\* against c and the updated state as its project; the updated state maps f
\* to {c, l} and every other file to the entry it had.
C6_EditorNodeAndUpdatedState ==
  [][atKnownFile =>
       LET b    == blockList[blockIdx]
           old  == heap[blockState]
           p    == MapGet(old, b.fileName).code
           node == newChildren'[Len(newChildren')]
           new  == heap'[node.project]
       IN  /\ Len(newChildren') = Len(newChildren) + 1
           /\ SubSeq(newChildren', 1, Len(newChildren)) = newChildren
           /\ node.mdxType = "TutorialEditor"
           /\ node.focusedFileName = b.fileName
           /\ node.diff = diffLines(p, b.code)
           /\ (p = "a" /\ b.code = "b") =>
                 node.diff = <<[value |-> "a", added |-> FALSE, removed |-> TRUE],
                               [value |-> "b", added |-> TRUE, removed |-> FALSE]>>
           /\ node.project = blockState'
           /\ MapKeys(new) = MapKeys(old)
           /\ MapGet(new, b.fileName) = [code |-> b.code, language |-> b.language]
           /\ \A g \in MapKeys(old) \ {b.fileName} : MapGet(new, g) = MapGet(old, g)]_vars

C6_Witness ==
  /\ pc = "swapCodeBlocks" /\ newChildren # <<>>
  /\ LET node == newChildren[Len(newChildren)]
     IN  /\ node.mdxType = "TutorialEditor"
         /\ node.diff = <<[value |-> "a", added |-> FALSE, removed |-> TRUE],
                          [value |-> "b", added |-> TRUE, removed |-> FALSE]>>
         /\ Cardinality(MapKeys(heap[node.project])) = 2

\* the project state after the qualifying code blocks of `blocks` are applied
\* to `map` in order
RECURSIVE ApplyBlocks(_, _)
ApplyBlocks(map, blocks) ==
  IF blocks = <<>> THEN map
  ELSE LET b == Head(blocks)
       IN  ApplyBlocks(IF isQualifying(b)
                         THEN MapSet(map, b.fileName,
                                     [code |-> b.code, language |-> b.language])
                         ELSE map,
                       Tail(blocks))

childrenOf(el) == el.children
blocksOfSection(el) ==
  IF isMdxType(el, "TutorialSection") THEN FlatMap(childrenOf, el.children) ELSE <<>>
\* the leaf nodes of the sections among the first n top-level children
sectionBlocksBefore(n) == FlatMap(blocksOfSection, SubSeq(children, 1, n))

\* C7: in a sectioned tutorial the state a section starts from is the initial
\* state with the code blocks of all earlier sections applied, in order; each
\* step and block continues from there; children that are not sections are
\* emitted as they are and leave the threaded state alone.
C7_StateThreadedAcrossSections ==
  isSectioned =>
    LET initial == heap[initialProjectState]
        before  == sectionBlocksBefore(sectionIdx - 1)
        inSteps == FlatMap(childrenOf, SubSeq(stepList, 1, stepIdx - 1))
    IN  /\ pc \in {"gatherSections", "done"} =>
             /\ heap[sectionState] = ApplyBlocks(initial, before)
             /\ \A i \in 1..(sectionIdx - 1) :
                  ~isMdxType(children[i], "TutorialSection") => elements[i] = children[i]
        /\ pc = "gatherSteps" =>
             heap[stepState] = ApplyBlocks(initial, before \o inSteps)
        /\ pc = "swapCodeBlocks" =>
             heap[blockState] =
               ApplyBlocks(initial, before \o inSteps \o SubSeq(blockList, 1, blockIdx - 1))

C7_Witness ==
  /\ isSectioned /\ pc = "swapCodeBlocks"
  /\ sectionIdx >= 2 /\ stepIdx = 1 /\ blockIdx = 1
  /\ isMdxType(children[1], "TutorialSection")
  /\ heap[blockState] # heap[initialProjectState]

\* C8: a Map once produced never changes, and every code-block update
\* yields a Map that did not exist before.
C8_CopyOnWrite ==
  [][/\ Len(heap') >= Len(heap)
     /\ \A ref \in 1..Len(heap) : heap'[ref] = heap[ref]
     /\ atKnownFile =>
          /\ Len(heap') = Len(heap) + 1
          /\ blockState' = Len(heap')
          /\ newChildren'[Len(newChildren')].project = Len(heap')]_vars

C8_Witness ==
  /\ Len(heap) >= 3
  /\ heap[1] # heap[2] /\ heap[2] # heap[3]

\* every element handed to the step assembler or scanned as a step
stepElements(t) ==
  LET inChild(el) == IF isMdxType(el, "TutorialSection") THEN el.children
                     ELSE IF isMdxType(el, "TutorialStep") THEN <<el>> ELSE <<>>
  IN  FlatMap(inChild, t)

RangeOf(s) == {s[i] : i \in 1..Len(s)}
qualifyingBlocks(stepEl) == {b \in RangeOf(stepEl.children) : isQualifying(b)}
firstQualifying(stepEl) ==
  LET i == CHOOSE i \in 1..Len(stepEl.children) :
             /\ isQualifying(stepEl.children[i])
             /\ \A j \in 1..(i - 1) : ~isQualifying(stepEl.children[j])
  IN  stepEl.children[i]

\* every step's first code block reproduces the config's initial code
firstBlocksReproduceConfig(config, stepEls) ==
  \A s \in RangeOf(stepEls) :
    qualifyingBlocks(s) # {} =>
      LET b == firstQualifying(s)
      IN  /\ MapHas(config, b.fileName)
          /\ MapGet(config, b.fileName) = [code |-> b.code, language |-> b.language]

stepFileNames(stepEls) ==
  UNION {{b.fileName : b \in qualifyingBlocks(s)} : s \in RangeOf(stepEls)}

\* C9 as stated (for tutorials in which some step has a code block): with a
\* Project block whose initial code every step's first code block reproduces,
\* the inferred initialiser yields the same file names as the explicit one.
C9_SameFileNames ==
  (/\ initialProjectState # 0
   /\ hasProject(tutorial)
   /\ stepFileNames(stepElements(children)) # {}
   /\ firstBlocksReproduceConfig(heap[initialProjectState], stepElements(children)))
  => MapKeys(heap[initialProjectState]) = MapKeys(parseProjectStateFromChildren(children))

\* C9 amended: under that condition the files of those first code blocks are
\* in both states; the two file-name sets are identical when moreover the
\* code blocks of the steps name exactly the files of the config.
C9_SameFileNamesWhenStepsCoverConfig ==
  (/\ initialProjectState # 0
   /\ hasProject(tutorial)
   /\ firstBlocksReproduceConfig(heap[initialProjectState], stepElements(children)))
  => LET explicit == MapKeys(heap[initialProjectState])
         inferred == MapKeys(parseProjectStateFromChildren(children))
         steps_   == stepElements(children)
     IN  /\ \A s \in RangeOf(steps_) :
              qualifyingBlocks(s) # {} =>
                firstQualifying(s).fileName \in explicit \cap inferred
         /\ stepFileNames(steps_) = explicit => inferred = explicit

C9_Witness ==
  /\ pc = "done"
  /\ hasProject(tutorial)
  /\ firstBlocksReproduceConfig(heap[initialProjectState], stepElements(children))
  /\ stepFileNames(stepElements(children)) = MapKeys(heap[initialProjectState])
  /\ isSectioned
  /\ MapKeys(heap[initialProjectState]) # {}

\* C10: without a Project block, a tutorial that passed validation never
\* meets the unknown-file-name error during assembly.
C10_InferredStateCoversAssembly ==
  (~hasProject(tutorial) /\ validationRan /\ validateChildren(tutorial) = NoError)
  => error # ErrFileName
====
